---- MODULE Spec2Model ----
(***************************************************************************)
(* Supply-chain tracking program (Anchor / Solana).                        *)
(*                                                                         *)
(* The staged program is the one under src/.../instructions/ and state/:   *)
(* initialize_product, log_event, complete_stage, transfer_ownership on a  *)
(* Product account with an ordered stage list and one SupplyChainEvent     *)
(* account per logged event.                                               *)
(*                                                                         *)
(* An instruction is atomic (lib.rs:40-43): the handler works on the       *)
(* in-memory accounts, and the accounts are written back only when the     *)
(* handler returns Ok.  Each process_* operator therefore returns the      *)
(* error kind together with the accounts as the handler left them, and the *)
(* action commits them only on "Ok".                                       *)
(*                                                                         *)
(* Strings are TLA+ strings, str.len() is Len; a Pubkey is a principal     *)
(* name; Option<Pubkey>::None is the value None.  Clock timestamps         *)
(* (created_at, timestamp) are written once from the external clock, are   *)
(* never read by the program and are left out.                             *)
(***************************************************************************)
EXTENDS Integers, Sequences, FiniteSets, TLC

VARIABLES
    products,   \* product accounts: product key |-> Product
    events,     \* event accounts: <<product key, event index>> |-> SupplyChainEvent
    last        \* the last instruction processed: its inputs, its outcome, the accounts before it

vars == <<products, events, last>>

----------------------------------------------------------------------------
(* Bounds of the model *)

\* largest value of the events_counter type (u64 in the program)
MaxCounter == 2

----------------------------------------------------------------------------
(* Program constants *)

MAX_STAGES == 10
STAGE_NAME_MAX_LEN == 50
U8_MODULUS == 256

None == "None"
Principals == {"A", "B", "C"}

ProductStatus == {"Created", "InTransit", "Received", "Delivered", "Transferred"}
EventType == {"Ongoing", "Complete"}

Stage(name, owner, completed) ==
    [name |-> name, owner |-> owner, completed |-> completed]

\* Option<Vec<Stage>>
NoneStages == [some |-> FALSE, val |-> <<>>]
SomeStages(list) == [some |-> TRUE, val |-> list]

\* Variant of ProductKey: seeds = [b"product", serial_number]
ProductKey_SerialOnly(owner, serial_number) == <<None, serial_number>>

\* seeds = [b"product", owner.key(), serial_number]
ProductKey(owner, serial_number) == <<owner, serial_number>>

\* seeds = [b"event", product_account.key(), events_counter.to_le_bytes()]
EventKey(pkey, counter) == <<pkey, counter>>

----------------------------------------------------------------------------
(* Account data *)

\* The Product account as `init` allocates it (all bytes zero), before the
\* handler writes its fields.
ZeroProduct ==
    [owner |-> None, serial_number |-> "", description |-> "",
     status |-> "Created", events_counter |-> 0, stages |-> <<>>,
     current_stage_index |-> 0, use_stages |-> FALSE]

\* The SupplyChainEvent account as `init` allocates it.
ZeroEvent ==
    [product |-> <<None, "">>, event_type |-> "Ongoing", description |-> "",
     stage_name |-> "", event_index |-> 0]

\* Result of a handler: the error kind ("Ok" on success) and the in-memory
\* accounts as the handler left them when it returned.
Outcome(err, product, event) == [err |-> err, product |-> product, event |-> event]

\* events_counter.checked_add(1): None when the sum does not fit the type
checked_add_overflows(counter) == counter + 1 > MaxCounter

----------------------------------------------------------------------------
(* initialize_product *)

RECURSIVE StageNamesValidFrom_Below(_, _)
\* Variant of StageNamesValidFrom: name.len() < STAGE_NAME_MAX_LEN.
StageNamesValidFrom_Below(stages, i) ==
    IF i > Len(stages) THEN TRUE
    ELSE IF ~(Len(stages[i].name) < STAGE_NAME_MAX_LEN /\ stages[i].name # "") THEN FALSE
    ELSE StageNamesValidFrom_Below(stages, i + 1)

RECURSIVE StageNamesValidFrom(_, _)
\* for stage in &stages { require!(name.len() <= STAGE_NAME_MAX_LEN && !name.is_empty()) }
StageNamesValidFrom(stages, i) ==
    IF i > Len(stages) THEN TRUE
    ELSE IF ~(Len(stages[i].name) <= STAGE_NAME_MAX_LEN /\ stages[i].name # "") THEN FALSE
    ELSE StageNamesValidFrom(stages, i + 1)

\* Variant of process_initialize_product: the stages are stored with their
\* completed flags cleared.
process_initialize_product_ClearCompleted(owner, serial_number, description, stages) ==
    LET acc == ZeroProduct IN
    IF ~(Len(serial_number) <= 50 /\ serial_number # "")
        THEN Outcome("InvalidSerialNumber", acc, ZeroEvent)
    ELSE IF ~(Len(description) <= 200 /\ description # "")
        THEN Outcome("InvalidDescription", acc, ZeroEvent)
    ELSE IF stages.some /\ ~(Len(stages.val) <= MAX_STAGES)
        THEN Outcome("TooManyStages", acc, ZeroEvent)
    ELSE IF stages.some /\ ~StageNamesValidFrom(stages.val, 1)
        THEN Outcome("InvalidStageName", acc, ZeroEvent)
    ELSE Outcome("Ok",
                 [owner |-> owner,
                  serial_number |-> serial_number,
                  description |-> description,
                  status |-> "Created",
                  events_counter |-> 0,
                  stages |-> IF stages.some
                                 THEN [i \in 1..Len(stages.val) |->
                                          [stages.val[i] EXCEPT !.completed = FALSE]]
                                 ELSE <<>>,
                  current_stage_index |-> 0,
                  use_stages |-> stages.some],
                 ZeroEvent)

process_initialize_product(owner, serial_number, description, stages) ==
    LET acc == ZeroProduct IN
    IF ~(Len(serial_number) <= 50 /\ serial_number # "")
        THEN Outcome("InvalidSerialNumber", acc, ZeroEvent)
    ELSE IF ~(Len(description) <= 200 /\ description # "")
        THEN Outcome("InvalidDescription", acc, ZeroEvent)
    ELSE IF stages.some /\ ~(Len(stages.val) <= MAX_STAGES)
        THEN Outcome("TooManyStages", acc, ZeroEvent)
    ELSE IF stages.some /\ ~StageNamesValidFrom(stages.val, 1)
        THEN Outcome("InvalidStageName", acc, ZeroEvent)
    ELSE Outcome("Ok",
                 [owner |-> owner,
                  serial_number |-> serial_number,
                  description |-> description,
                  status |-> "Created",
                  events_counter |-> 0,
                  stages |-> IF stages.some THEN stages.val ELSE <<>>,
                  current_stage_index |-> 0,
                  use_stages |-> stages.some],
                 ZeroEvent)

----------------------------------------------------------------------------
(* log_event *)

\* Variant of PopulateEvent: the counter is bumped by wrapping_add(2).
PopulateEvent_BumpByTwo(pkey, p, stage_name, description, event_type) ==
    LET ev == [product |-> pkey, event_type |-> event_type,
               description |-> description, stage_name |-> stage_name,
               event_index |-> p.events_counter]
    IN  Outcome("Ok", [p EXCEPT !.events_counter = (@ + 2) % (MaxCounter + 1)], ev)

\* Variant of PopulateEvent: the counter is bumped by wrapping_add(1).
PopulateEvent_WrappingAdd(pkey, p, stage_name, description, event_type) ==
    LET ev == [product |-> pkey, event_type |-> event_type,
               description |-> description, stage_name |-> stage_name,
               event_index |-> p.events_counter]
    IN  Outcome("Ok", [p EXCEPT !.events_counter = (@ + 1) % (MaxCounter + 1)], ev)

\* Variant of PopulateEvent: event_index is read after the counter was bumped.
PopulateEvent_IndexAfterBump(pkey, p, stage_name, description, event_type) ==
    LET ev == [product |-> pkey, event_type |-> event_type,
               description |-> description, stage_name |-> stage_name,
               event_index |-> p.events_counter + 1]
    IN  IF checked_add_overflows(p.events_counter)
            THEN Outcome("CounterOverflow", p, ev)
            ELSE Outcome("Ok", [p EXCEPT !.events_counter = @ + 1], ev)

\* Lines 108-119: populate the event account, then bump the counter.
PopulateEvent(pkey, p, stage_name, description, event_type) ==
    LET ev == [product |-> pkey, event_type |-> event_type,
               description |-> description, stage_name |-> stage_name,
               event_index |-> p.events_counter]
    IN  IF checked_add_overflows(p.events_counter)
            THEN Outcome("CounterOverflow", p, ev)
            ELSE Outcome("Ok", [p EXCEPT !.events_counter = @ + 1], ev)

\* Variant of MarkCompleted: completing the last stage sets the status.
MarkCompleted_DeliverOnLast(p, current) ==
    LET done == [p EXCEPT !.stages[current + 1].completed = TRUE]
    IN  IF current + 1 < Len(p.stages)
            THEN [done EXCEPT !.current_stage_index = (@ + 1) % U8_MODULUS]
            ELSE [done EXCEPT !.status = "Delivered"]

\* Variant of MarkCompleted: the index moves to the next stage, the stage
\* left behind is not marked.
MarkCompleted_AdvanceOnly(p, current) ==
    IF current + 1 < Len(p.stages)
        THEN [p EXCEPT !.current_stage_index = (@ + 1) % U8_MODULUS]
        ELSE [p EXCEPT !.stages[current + 1].completed = TRUE]

\* Variant of MarkCompleted: the index moves on without the test
\* `current_stage_index + 1 < stages.len()`.
MarkCompleted_AlwaysAdvance(p, current) ==
    [p EXCEPT !.stages[current + 1].completed = TRUE,
              !.current_stage_index = (@ + 1) % U8_MODULUS]

\* Lines 77-85: a Complete event marks the current stage completed and moves
\* to the next stage when there is one.  `current` is the 0-based index.
MarkCompleted(p, current) ==
    LET done == [p EXCEPT !.stages[current + 1].completed = TRUE]
    IN  IF current + 1 < Len(p.stages)
            THEN [done EXCEPT !.current_stage_index = (@ + 1) % U8_MODULUS]
            ELSE done

\* Variant of StageSignerOk: any signer may act on the current stage.
StageSignerOk_Any(p, signer, current) == TRUE

\* Variant of StageSignerOk: the signer is compared with product.owner.
StageSignerOk_ProductOwner(p, signer, current) == signer = p.owner

\* Variant of StageSignerOk: a stage without an owner is the product owner's.
StageSignerOk_OpenNeedsProductOwner(p, signer, current) ==
    LET stage_owner == p.stages[current + 1].owner
    IN  IF stage_owner = None THEN signer = p.owner ELSE signer = stage_owner

\* Lines 65-72: the signer must be the current stage's owner when it has one.
StageSignerOk(p, signer, current) ==
    LET stage_owner == p.stages[current + 1].owner
    IN  stage_owner = None \/ signer = stage_owner

\* Variant of AppendStage: the new stage has no owner.
AppendStage_Unowned(p, signer, stage_name, event_type) ==
    [p EXCEPT !.stages = Append(@, Stage(stage_name, None, event_type = "Complete")),
              !.current_stage_index = ((Len(p.stages) + 1) - 1) % U8_MODULUS]

\* Variant of AppendStage: the new stage belongs to the product's owner.
AppendStage_ProductOwner(p, signer, stage_name, event_type) ==
    [p EXCEPT !.stages = Append(@, Stage(stage_name, p.owner, event_type = "Complete")),
              !.current_stage_index = ((Len(p.stages) + 1) - 1) % U8_MODULUS]

\* Lines 92-105: push a stage named after the event, owned by the signer,
\* and make it the current stage (index stages.len() - 1 after the push).
AppendStage(p, signer, stage_name, event_type) ==
    [p EXCEPT !.stages = Append(@, Stage(stage_name, signer, event_type = "Complete")),
              !.current_stage_index = ((Len(p.stages) + 1) - 1) % U8_MODULUS]

\* Variant of process_log_event: a stage is pushed whenever the stage name
\* passed is not the name of the current stage, up to MAX_STAGES.
process_log_event_PushNamedStage(pkey, p, signer, stage_name, description, event_type) ==
    IF ~(Len(description) <= 200 /\ description # "")
        THEN Outcome("InvalidDescription", p, ZeroEvent)
    ELSE IF ~(Len(stage_name) <= STAGE_NAME_MAX_LEN /\ stage_name # "")
        THEN Outcome("InvalidStageName", p, ZeroEvent)
    ELSE IF p.stages # <<>> /\ p.stages[p.current_stage_index + 1].name = stage_name THEN
        LET current == p.current_stage_index IN
        IF p.stages[current + 1].completed
            THEN Outcome("StageNotCompleted", p, ZeroEvent)
        ELSE IF ~StageSignerOk(p, signer, current)
            THEN Outcome("UnauthorizedAccess", p, ZeroEvent)
        ELSE PopulateEvent(pkey,
                           IF event_type = "Complete" THEN MarkCompleted(p, current) ELSE p,
                           p.stages[current + 1].name, description, event_type)
    ELSE
        IF ~(Len(p.stages) < MAX_STAGES)
            THEN Outcome("TooManyStages", p, ZeroEvent)
        ELSE PopulateEvent(pkey, AppendStage(p, signer, stage_name, event_type),
                           stage_name, description, event_type)

\* Variant of process_log_event: the stage-owner check comes before the
\* check that the current stage is not completed.
process_log_event_OwnerCheckFirst(pkey, p, signer, stage_name, description, event_type) ==
    IF ~(Len(description) <= 200 /\ description # "")
        THEN Outcome("InvalidDescription", p, ZeroEvent)
    ELSE IF ~(Len(stage_name) <= STAGE_NAME_MAX_LEN /\ stage_name # "")
        THEN Outcome("InvalidStageName", p, ZeroEvent)
    ELSE IF p.stages # <<>> THEN
        LET current == p.current_stage_index IN
        IF ~(current < Len(p.stages))
            THEN Outcome("InvalidStageIndex", p, ZeroEvent)
        ELSE IF ~StageSignerOk(p, signer, current)
            THEN Outcome("UnauthorizedAccess", p, ZeroEvent)
        ELSE IF p.stages[current + 1].completed
            THEN Outcome("StageNotCompleted", p, ZeroEvent)
        ELSE PopulateEvent(pkey,
                           IF event_type = "Complete" THEN MarkCompleted(p, current) ELSE p,
                           p.stages[current + 1].name, description, event_type)
    ELSE
        IF ~(Len(p.stages) < MAX_STAGES)
            THEN Outcome("TooManyStages", p, ZeroEvent)
        ELSE PopulateEvent(pkey, AppendStage(p, signer, stage_name, event_type),
                           stage_name, description, event_type)

process_log_event(pkey, p, signer, stage_name, description, event_type) ==
    IF ~(Len(description) <= 200 /\ description # "")
        THEN Outcome("InvalidDescription", p, ZeroEvent)
    ELSE IF ~(Len(stage_name) <= STAGE_NAME_MAX_LEN /\ stage_name # "")
        THEN Outcome("InvalidStageName", p, ZeroEvent)
    ELSE IF p.stages # <<>> THEN
        LET current == p.current_stage_index IN
        IF ~(current < Len(p.stages))
            THEN Outcome("InvalidStageIndex", p, ZeroEvent)
        ELSE IF p.stages[current + 1].completed
            THEN Outcome("StageNotCompleted", p, ZeroEvent)
        ELSE IF ~StageSignerOk(p, signer, current)
            THEN Outcome("UnauthorizedAccess", p, ZeroEvent)
        ELSE PopulateEvent(pkey,
                           IF event_type = "Complete" THEN MarkCompleted(p, current) ELSE p,
                           p.stages[current + 1].name, description, event_type)
    ELSE
        IF ~(Len(p.stages) < MAX_STAGES)
            THEN Outcome("TooManyStages", p, ZeroEvent)
        ELSE PopulateEvent(pkey, AppendStage(p, signer, stage_name, event_type),
                           stage_name, description, event_type)

----------------------------------------------------------------------------
(* complete_stage *)

\* Variant of process_complete_stage: the move to the next stage sits inside
\* the `if let Some(next_owner)` block.
process_complete_stage_AdvanceInHandoff(p, signer) ==
    LET current == p.current_stage_index IN
    IF signer # p.owner
        THEN Outcome("UnauthorizedAccess", p, ZeroEvent)
    ELSE IF ~(current < Len(p.stages))
        THEN Outcome("InvalidStageIndex", p, ZeroEvent)
    ELSE
        LET done == [p EXCEPT !.stages[current + 1].completed = TRUE] IN
        IF current + 1 < Len(p.stages) THEN
            LET next_stage_index == current + 1
                next_owner == p.stages[next_stage_index + 1].owner
            IN  Outcome("Ok",
                        IF next_owner # None
                            THEN [done EXCEPT !.owner = next_owner, !.status = "Transferred",
                                              !.current_stage_index = next_stage_index % U8_MODULUS]
                            ELSE done,
                        ZeroEvent)
        ELSE Outcome("Ok", [done EXCEPT !.status = "Delivered"], ZeroEvent)

\* Variant of process_complete_stage: the signer is compared with the owner
\* of the current stage, when it has one, instead of product.owner.
process_complete_stage_StageOwnerSigns(p, signer) ==
    LET current == p.current_stage_index IN
    IF ~(current < Len(p.stages))
        THEN Outcome("InvalidStageIndex", p, ZeroEvent)
    ELSE IF ~StageSignerOk(p, signer, current)
        THEN Outcome("UnauthorizedAccess", p, ZeroEvent)
    ELSE
        LET done == [p EXCEPT !.stages[current + 1].completed = TRUE] IN
        IF current + 1 < Len(p.stages) THEN
            LET next_stage_index == current + 1
                next_owner == p.stages[next_stage_index + 1].owner
                handed == IF next_owner # None
                              THEN [done EXCEPT !.owner = next_owner, !.status = "Transferred"]
                              ELSE done
            IN  Outcome("Ok", [handed EXCEPT !.current_stage_index = next_stage_index % U8_MODULUS],
                        ZeroEvent)
        ELSE Outcome("Ok", [done EXCEPT !.status = "Delivered"], ZeroEvent)

\* Variant of process_complete_stage: on the last stage the status becomes
\* Delivered without the stage being marked completed.
process_complete_stage_DeliverUnmarked(p, signer) ==
    LET current == p.current_stage_index IN
    IF signer # p.owner
        THEN Outcome("UnauthorizedAccess", p, ZeroEvent)
    ELSE IF ~(current < Len(p.stages))
        THEN Outcome("InvalidStageIndex", p, ZeroEvent)
    ELSE
        LET done == [p EXCEPT !.stages[current + 1].completed = TRUE] IN
        IF current + 1 < Len(p.stages) THEN
            LET next_stage_index == current + 1
                next_owner == p.stages[next_stage_index + 1].owner
                handed == IF next_owner # None
                              THEN [done EXCEPT !.owner = next_owner, !.status = "Transferred"]
                              ELSE done
            IN  Outcome("Ok", [handed EXCEPT !.current_stage_index = next_stage_index % U8_MODULUS],
                        ZeroEvent)
        ELSE Outcome("Ok", [p EXCEPT !.status = "Delivered"], ZeroEvent)

process_complete_stage(p, signer) ==
    LET current == p.current_stage_index IN
    IF signer # p.owner
        THEN Outcome("UnauthorizedAccess", p, ZeroEvent)
    ELSE IF ~(current < Len(p.stages))
        THEN Outcome("InvalidStageIndex", p, ZeroEvent)
    ELSE
        LET done == [p EXCEPT !.stages[current + 1].completed = TRUE] IN
        IF current + 1 < Len(p.stages) THEN
            LET next_stage_index == current + 1
                next_owner == p.stages[next_stage_index + 1].owner
                handed == IF next_owner # None
                              THEN [done EXCEPT !.owner = next_owner, !.status = "Transferred"]
                              ELSE done
            IN  Outcome("Ok", [handed EXCEPT !.current_stage_index = next_stage_index % U8_MODULUS],
                        ZeroEvent)
        ELSE Outcome("Ok", [done EXCEPT !.status = "Delivered"], ZeroEvent)

----------------------------------------------------------------------------
(* transfer_ownership *)

\* Variant of process_transfer_ownership: the transfer reopens the stages.
process_transfer_ownership_ReopenStages(p, current_owner, new_owner) ==
    IF current_owner # p.owner
        THEN Outcome("UnauthorizedAccess", p, ZeroEvent)
        ELSE Outcome("Ok",
                     [p EXCEPT !.owner = new_owner, !.status = "Transferred",
                               !.stages = [i \in 1..Len(@) |-> [@[i] EXCEPT !.completed = FALSE]]],
                     ZeroEvent)

\* Variant of process_transfer_ownership without the signer check.
process_transfer_ownership_NoAuth(p, current_owner, new_owner) ==
    Outcome("Ok", [p EXCEPT !.owner = new_owner, !.status = "Transferred"], ZeroEvent)

process_transfer_ownership(p, current_owner, new_owner) ==
    IF current_owner # p.owner
        THEN Outcome("UnauthorizedAccess", p, ZeroEvent)
        ELSE Outcome("Ok", [p EXCEPT !.owner = new_owner, !.status = "Transferred"], ZeroEvent)

----------------------------------------------------------------------------
(* lib.rs: the program without stages *)

\* lib.rs declares a program of its own (module supply_chain_program) with
\* typed events and no stage list: initialize_product, log_event and
\* transfer_ownership on a Product of owner, serial_number, description,
\* status, created_at and events_counter.

LibEventType == {"Created", "Shipped", "Received", "QualityCheck", "Delivered", "Other"}

LibZeroProduct ==
    [owner |-> None, serial_number |-> "", description |-> "",
     status |-> "Created", events_counter |-> 0]

LibZeroEvent ==
    [product |-> <<None, "">>, event_type |-> "Created", description |-> "",
     event_index |-> 0]

initialize_product(owner, serial_number, description) ==
    IF ~(Len(serial_number) <= 50 /\ serial_number # "")
        THEN Outcome("InvalidSerialNumber", LibZeroProduct, LibZeroEvent)
    ELSE IF ~(Len(description) <= 200 /\ description # "")
        THEN Outcome("InvalidDescription", LibZeroProduct, LibZeroEvent)
    ELSE Outcome("Ok",
                 [owner |-> owner,
                  serial_number |-> serial_number,
                  description |-> description,
                  status |-> "Created",
                  events_counter |-> 0],
                 LibZeroEvent)

\* Variant of StatusAfter: a Received event leaves the status as it is.
StatusAfter_ReceivedKeeps(event_type, status) ==
    CASE event_type = "Shipped" -> "InTransit"
      [] event_type = "Delivered" -> "Delivered"
      [] OTHER -> status

\* product_account.status = match event_type { ... }
StatusAfter(event_type, status) ==
    CASE event_type = "Shipped" -> "InTransit"
      [] event_type = "Received" -> "Received"
      [] event_type = "Delivered" -> "Delivered"
      [] OTHER -> status

\* Variant of log_event without the require_eq! on the signer.
log_event_NoAuth(pkey, p, signer, event_type, description) ==
    IF ~(Len(description) <= 200 /\ description # "")
        THEN Outcome("InvalidDescription", p, LibZeroEvent)
    ELSE
        LET ev == [product |-> pkey, event_type |-> event_type,
                   description |-> description, event_index |-> p.events_counter]
            moved == [p EXCEPT !.status = StatusAfter(event_type, @)]
        IN  IF checked_add_overflows(p.events_counter)
                THEN Outcome("CounterOverflow", moved, ev)
                ELSE Outcome("Ok", [moved EXCEPT !.events_counter = @ + 1], ev)

log_event(pkey, p, signer, event_type, description) ==
    IF ~(Len(description) <= 200 /\ description # "")
        THEN Outcome("InvalidDescription", p, LibZeroEvent)
    ELSE IF signer # p.owner
        THEN Outcome("UnauthorizedAccess", p, LibZeroEvent)
    ELSE
        LET ev == [product |-> pkey, event_type |-> event_type,
                   description |-> description, event_index |-> p.events_counter]
            moved == [p EXCEPT !.status = StatusAfter(event_type, @)]
        IN  IF checked_add_overflows(p.events_counter)
                THEN Outcome("CounterOverflow", moved, ev)
                ELSE Outcome("Ok", [moved EXCEPT !.events_counter = @ + 1], ev)

transfer_ownership(p, current_owner, new_owner) ==
    IF current_owner # p.owner
        THEN Outcome("UnauthorizedAccess", p, LibZeroEvent)
        ELSE Outcome("Ok", [p EXCEPT !.owner = new_owner, !.status = "Transferred"], LibZeroEvent)

----------------------------------------------------------------------------
(* Account validation and the instructions *)

\* Error reported when an `init` account constraint rejects the instruction
\* before the handler runs.
AccountInitFailed == "AccountInitFailed"

\* InitializeProduct.product_account: #[account(init, seeds = [b"product",
\* owner, serial_number], bump)].  `init` creates the account and fails when
\* it already exists.
ProductAccountInitOk(pkey) == pkey \notin DOMAIN products

\* Variant of EventAccountInitOk: the event account is taken as passed, with
\* neither the seeds check nor the failure on an existing account.
EventAccountUnchecked(pkey, p, address) == TRUE

\* Variant of EventAccountInitOk: init_if_needed, an existing event account
\* of the product is taken as it is.
EventAccountInitIfNeeded(pkey, p, address) ==
    \/ address = EventKey(pkey, p.events_counter)
    \/ address \in DOMAIN events /\ events[address].product = pkey

\* LogEvent.event_account: #[account(init, seeds = [b"event", product_account,
\* product_account.events_counter], bump)].  The transaction names the event
\* account by its address, derived by the client from the counter it read;
\* the address must be the one the seeds give when the instruction runs, and
\* `init` creates the account, which fails when it already exists.
EventAccountInitOk(pkey, p, address) ==
    /\ address = EventKey(pkey, p.events_counter)
    /\ address \notin DOMAIN events

NoArgs ==
    [stage_name |-> "", description |-> "", event_type |-> "Ongoing",
     observed |-> 0, new_owner |-> None, serial_number |-> "", stages |-> NoneStages]

\* Record of one processed instruction.
Call(op, pkey, signer, args, err) ==
    [op |-> op, key |-> pkey, signer |-> signer, args |-> args, err |-> err,
     pre_products |-> products, pre_events |-> events]

InitializeProduct(owner, serial_number, description, stages) ==
    LET pkey == ProductKey(owner, serial_number)
        out == process_initialize_product(owner, serial_number, description, stages)
        err == IF ProductAccountInitOk(pkey) THEN out.err ELSE AccountInitFailed
        args == [NoArgs EXCEPT !.serial_number = serial_number,
                               !.description = description, !.stages = stages]
    IN  /\ products' = IF err = "Ok" THEN (pkey :> out.product) @@ products ELSE products
        /\ events' = events
        /\ last' = Call("initialize_product", pkey, owner, args, err)

\* Variant of LogEvent: the accounts are written back as the handler left
\* them, also when it returned an error.
LogEvent_NoRollback(signer, pkey, observed, stage_name, description, event_type) ==
    /\ pkey \in DOMAIN products
    /\ LET p == products[pkey]
           address == EventKey(pkey, observed)
           out == process_log_event(pkey, p, signer, stage_name, description, event_type)
           created == EventAccountInitOk(pkey, p, address)
           err == IF created THEN out.err ELSE AccountInitFailed
           args == [NoArgs EXCEPT !.stage_name = stage_name, !.description = description,
                                  !.event_type = event_type, !.observed = observed]
       IN  /\ products' = IF created THEN [products EXCEPT ![pkey] = out.product] ELSE products
           /\ events' = IF created THEN (address :> out.event) @@ events ELSE events
           /\ last' = Call("log_event", pkey, signer, args, err)

\* `observed` is the events_counter value from which the client derived the
\* address of the event account it passes; it is stale when other log_event
\* transactions on the product committed after the client read the counter.
LogEvent(signer, pkey, observed, stage_name, description, event_type) ==
    /\ pkey \in DOMAIN products
    /\ LET p == products[pkey]
           address == EventKey(pkey, observed)
           out == process_log_event(pkey, p, signer, stage_name, description, event_type)
           err == IF EventAccountInitOk(pkey, p, address) THEN out.err ELSE AccountInitFailed
           args == [NoArgs EXCEPT !.stage_name = stage_name, !.description = description,
                                  !.event_type = event_type, !.observed = observed]
       IN  /\ products' = IF err = "Ok" THEN [products EXCEPT ![pkey] = out.product] ELSE products
           /\ events' = IF err = "Ok" THEN (address :> out.event) @@ events ELSE events
           /\ last' = Call("log_event", pkey, signer, args, err)

CompleteStage(signer, pkey) ==
    /\ pkey \in DOMAIN products
    /\ LET out == process_complete_stage(products[pkey], signer)
       IN  /\ products' = IF out.err = "Ok" THEN [products EXCEPT ![pkey] = out.product] ELSE products
           /\ events' = events
           /\ last' = Call("complete_stage", pkey, signer, NoArgs, out.err)

TransferOwnership(current_owner, pkey, new_owner) ==
    /\ pkey \in DOMAIN products
    /\ LET out == process_transfer_ownership(products[pkey], current_owner, new_owner)
       IN  /\ products' = IF out.err = "Ok" THEN [products EXCEPT ![pkey] = out.product] ELSE products
           /\ events' = events
           /\ last' = Call("transfer_ownership", pkey, current_owner,
                           [NoArgs EXCEPT !.new_owner = new_owner], out.err)

\* The instructions of lib.rs.  Its account structs carry the same
\* constraints as the staged ones.
LibInitializeProduct(owner, serial_number, description) ==
    LET pkey == ProductKey(owner, serial_number)
        out == initialize_product(owner, serial_number, description)
        err == IF ProductAccountInitOk(pkey) THEN out.err ELSE AccountInitFailed
        args == [NoArgs EXCEPT !.serial_number = serial_number, !.description = description]
    IN  /\ products' = IF err = "Ok" THEN (pkey :> out.product) @@ products ELSE products
        /\ events' = events
        /\ last' = Call("initialize_product", pkey, owner, args, err)

LibLogEvent(signer, pkey, observed, event_type, description) ==
    /\ pkey \in DOMAIN products
    /\ LET p == products[pkey]
           address == EventKey(pkey, observed)
           out == log_event(pkey, p, signer, event_type, description)
           err == IF EventAccountInitOk(pkey, p, address) THEN out.err ELSE AccountInitFailed
           args == [NoArgs EXCEPT !.description = description,
                                  !.event_type = event_type, !.observed = observed]
       IN  /\ products' = IF err = "Ok" THEN [products EXCEPT ![pkey] = out.product] ELSE products
           /\ events' = IF err = "Ok" THEN (address :> out.event) @@ events ELSE events
           /\ last' = Call("log_event", pkey, signer, args, err)

LibTransferOwnership(current_owner, pkey, new_owner) ==
    /\ pkey \in DOMAIN products
    /\ LET out == transfer_ownership(products[pkey], current_owner, new_owner)
       IN  /\ products' = IF out.err = "Ok" THEN [products EXCEPT ![pkey] = out.product] ELSE products
           /\ events' = events
           /\ last' = Call("transfer_ownership", pkey, current_owner,
                           [NoArgs EXCEPT !.new_owner = new_owner], out.err)

----------------------------------------------------------------------------
(* Inputs *)

Str51 == "123456789012345678901234567890123456789012345678901"
Str201 == "1234567890123456789012345678901234567890123456789012345678901234567890123456789012345678901234567890"
       \o "1234567890123456789012345678901234567890123456789012345678901234567890123456789012345678901234567890"
       \o "1"

Creators == {"A"}
Serials == {"SN1"}
ProductKeys == {ProductKey(o, sn) : o \in Creators, sn \in Serials}

\* Scenario B: Mfg owned by A, then Ship owned by B
StagesAB == <<Stage("Mfg", "A", FALSE), Stage("Ship", "B", FALSE)>>
\* the next stage declares no owner
StagesAOpen == <<Stage("Mfg", "A", FALSE), Stage("Pack", None, FALSE)>>
\* a first stage supplied as already completed
StagesDoneB == <<Stage("Mfg", "A", TRUE), Stage("Ship", "B", FALSE)>>
StagesTooMany == [i \in 1..(MAX_STAGES + 1) |-> Stage("S", None, FALSE)]

StageArgs ==
    {NoneStages, SomeStages(<<>>), SomeStages(StagesAB), SomeStages(StagesAOpen),
     SomeStages(StagesDoneB), SomeStages(StagesTooMany),
     SomeStages(<<Stage("", "A", FALSE)>>)}

\* <<owner, serial_number, description, stages>>
InitArgs ==
    {<<o, sn, "Widget", st>> : o \in Creators, sn \in Serials, st \in StageArgs}
    \cup {<<"A", "", "Widget", NoneStages>>, <<"A", "SN1", "", NoneStages>>}

\* <<stage_name, description, event_type>>
LogArgs ==
    {<<"Recv", "done", et>> : et \in EventType}
    \cup {<<"Recv", "", "Ongoing">>, <<"Recv", Str201, "Complete">>,
          <<"", "done", "Ongoing">>, <<Str51, "done", "Complete">>}

----------------------------------------------------------------------------
(* Specification *)

Init ==
    /\ products = <<>>
    /\ events = <<>>
    /\ last = [op |-> "none", key |-> ProductKey(None, ""), signer |-> None,
               args |-> NoArgs, err |-> "Ok",
               pre_products |-> <<>>, pre_events |-> <<>>]

\* One step: any principal of `signers` submits any instruction, with inputs
\* drawn from the given sets.
NextOver(initArgs, signers, keys, logArgs, newOwners) ==
    \/ \E a \in initArgs :
           InitializeProduct(a[1], a[2], a[3], a[4])
    \/ \E signer \in signers, pkey \in keys, observed \in 0..MaxCounter, a \in logArgs :
           LogEvent(signer, pkey, observed, a[1], a[2], a[3])
    \/ \E signer \in signers, pkey \in keys :
           CompleteStage(signer, pkey)
    \/ \E current_owner \in signers, pkey \in keys, new_owner \in newOwners :
           TransferOwnership(current_owner, pkey, new_owner)

\* One product key, every kind of input.
Next == NextOver(InitArgs, Principals, ProductKeys, LogArgs, Principals)

Spec == Init /\ [][Next]_vars

\* Two products side by side (same serial number, two creators), valid inputs.
Creators2 == {"A", "B"}
ProductKeys2 == {ProductKey(o, sn) : o \in Creators2, sn \in Serials}
InitArgs2 ==
    {<<"A", "SN1", "Widget", SomeStages(StagesAB)>>, <<"B", "SN1", "Widget", NoneStages>>}
LogArgs2 == {<<"Recv", "done", et>> : et \in EventType}

NextTwo == NextOver(InitArgs2, Creators2, ProductKeys2, LogArgs2, {"B"})

SpecTwo == Init /\ [][NextTwo]_vars

\* Inputs at the length limits: serial numbers of 0, 1, 50 and 51 characters,
\* descriptions of 0, 1, 200 and 201 characters, stage lists of 10 and 11
\* stages, stage names of 0, 1, 50 and 51 characters.
Str50 == "12345678901234567890123456789012345678901234567890"
Str200 == Str50 \o Str50 \o Str50 \o Str50
StagesTen == [i \in 1..MAX_STAGES |-> Stage(IF i = 1 THEN Str50 ELSE "S", None, FALSE)]

InitArgsLimits ==
    {<<"A", sn, "Widget", NoneStages>> : sn \in {"", "S", Str50, Str51, "SN1"}}
    \cup {<<"A", "SN1", d, NoneStages>> : d \in {"", "d", Str200, Str201}}
    \cup {<<"A", "SN1", "Widget", SomeStages(st)>> :
             st \in {StagesTen, StagesTooMany,
                     <<Stage("", None, FALSE)>>, <<Stage(Str51, None, FALSE)>>}}
    \cup {<<"A", "", Str201, SomeStages(StagesTooMany)>>,
          <<"A", "SN1", Str201, SomeStages(StagesTooMany)>>,
          <<"A", "SN1", "Widget", SomeStages([StagesTooMany EXCEPT ![1].name = ""])>>}

\* Products are created from the inputs at the limits; the other
\* instructions act on the product with serial number "SN1".
NextLimits == NextOver(InitArgsLimits, Creators2, ProductKeys, LogArgs2, {"B"})

SpecLimits == Init /\ [][NextLimits]_vars

\* The program of lib.rs: one product key, two principals, every kind of input.
\* <<owner, serial_number, description>>
LibInitArgs ==
    {<<"A", "SN1", "Widget">>, <<"A", "", "Widget">>, <<"A", Str51, "Widget">>,
     <<"A", "SN1", "">>, <<"A", "SN1", Str201>>}

\* <<event_type, description>>
LibLogArgs ==
    {<<et, "left warehouse">> : et \in LibEventType}
    \cup {<<"Shipped", "">>, <<"Shipped", Str201>>}

NextLib ==
    \/ \E a \in LibInitArgs :
           LibInitializeProduct(a[1], a[2], a[3])
    \/ \E signer \in Creators2, pkey \in ProductKeys, observed \in 0..MaxCounter, a \in LibLogArgs :
           LibLogEvent(signer, pkey, observed, a[1], a[2])
    \/ \E current_owner \in Creators2, pkey \in ProductKeys, new_owner \in Creators2 :
           LibTransferOwnership(current_owner, pkey, new_owner)

SpecLib == Init /\ [][NextLib]_vars

----------------------------------------------------------------------------
(* Helpers for the properties *)

\* addresses of the event accounts that belong to product pkey
EventAccountsOf(evs, pkey) == {a \in DOMAIN evs : evs[a].product = pkey}

\* the product the last instruction named, before the instruction
PreProduct == last.pre_products[last.key]

\* the event-account address the last log_event passed
LastAddress == EventKey(last.key, last.args.observed)

\* the last instruction was `op` on an existing product
Ran(op) == last.op = op /\ last.key \in DOMAIN last.pre_products

\* description and stage name within their length limits
ValidLogInputs(args) ==
    /\ Len(args.description) \in 1..200
    /\ Len(args.stage_name) \in 1..50

NothingChanged == products = last.pre_products /\ events = last.pre_events

----------------------------------------------------------------------------
(* C1 *)

\* C1: for every product the event accounts of the product carry exactly the
\* indices 0 .. events_counter-1, one account per index, each stored under
\* the key (product, index); and a successful log_event creates the account
\* whose index is the number of events the product had before.
C1_EventIndicesGapFree ==
    /\ \A a \in DOMAIN events : events[a].product \in DOMAIN products
    /\ \A pkey \in DOMAIN products :
        LET accts == EventAccountsOf(events, pkey) IN
        /\ {events[a].event_index : a \in accts} = 0..(products[pkey].events_counter - 1)
        /\ Cardinality(accts) = products[pkey].events_counter
        /\ \A a \in accts : a = EventKey(pkey, events[a].event_index)
    /\ (Ran("log_event") /\ last.err = "Ok") =>
        /\ LastAddress \notin DOMAIN last.pre_events
        /\ DOMAIN events = DOMAIN last.pre_events \cup {LastAddress}
        /\ events[LastAddress].event_index = Cardinality(EventAccountsOf(last.pre_events, last.key))

\* Two products, the first with two events and the second with at least one.
C1_Witness ==
    \E k1 \in DOMAIN products, k2 \in DOMAIN products :
        /\ k1 # k2
        /\ products[k1].events_counter >= 2
        /\ products[k2].events_counter >= 1
        /\ Ran("log_event") /\ last.err = "Ok"

----------------------------------------------------------------------------
(* C2 *)

\* C2: of the log_event instructions built on the same observed counter N at
\* most one commits event N: a log_event commits only when no event account
\* exists under its key (product, N); one that arrives when the key is taken
\* fails at the creation of the event account, and the committed event, the
\* other events and the product are as they were.
C2_StaleLogEventCollides ==
    Ran("log_event") =>
        /\ (LastAddress \in DOMAIN last.pre_events) =>
               /\ last.err = AccountInitFailed
               /\ NothingChanged
        /\ (last.err = "Ok") =>
               /\ LastAddress \notin DOMAIN last.pre_events
               /\ \A a \in DOMAIN last.pre_events : events[a] = last.pre_events[a]

\* A log_event built on counter N is processed after another one committed
\* event N (the counter is N+1 by then), and is rejected.
C2_Witness ==
    /\ Ran("log_event")
    /\ last.err = AccountInitFailed
    /\ LastAddress \in DOMAIN events
    /\ PreProduct.events_counter = last.args.observed + 1
    /\ ValidLogInputs(last.args)

----------------------------------------------------------------------------
(* C3 *)

\* C3: complete_stage or transfer_ownership signed by a principal other than
\* product.owner fails with UnauthorizedAccess and changes no account.
C3_NonOwnerRejected ==
    ((Ran("complete_stage") \/ Ran("transfer_ownership")) /\ last.signer # PreProduct.owner) =>
        /\ last.err = "UnauthorizedAccess"
        /\ NothingChanged

\* The owner of the current stage, who is no longer the product owner, calls
\* transfer_ownership and is rejected.
C3_Witness ==
    /\ Ran("transfer_ownership")
    /\ last.signer # PreProduct.owner
    /\ PreProduct.stages # <<>>
    /\ PreProduct.stages[PreProduct.current_stage_index + 1].owner = last.signer
    /\ last.err = "UnauthorizedAccess"

----------------------------------------------------------------------------
(* C4 *)

\* the last log_event passed the event account of the counter as it was
FreshAddress == LastAddress = EventKey(last.key, PreProduct.events_counter)

\* the current stage of a product that has stages
CurrentStage(p) == p.stages[p.current_stage_index + 1]

\* the last instruction was a log_event with valid inputs, on a product whose
\* current stage has a designated owner, signed by somebody else
C4_Case ==
    /\ Ran("log_event")
    /\ ValidLogInputs(last.args)
    /\ FreshAddress
    /\ PreProduct.stages # <<>>
    /\ CurrentStage(PreProduct).owner # None
    /\ last.signer # CurrentStage(PreProduct).owner

\* C4 as stated: whenever the current stage has a designated owner, a
\* log_event with valid inputs by any other principal fails with
\* UnauthorizedAccess and changes nothing.
C4_Original ==
    C4_Case => (last.err = "UnauthorizedAccess" /\ NothingChanged)

\* C4 amended: whenever the current stage has a designated owner, a log_event
\* with valid inputs by any other principal fails and changes nothing; the
\* error is UnauthorizedAccess when the current stage is not completed and
\* StageNotCompleted when it is.
C4_Amended ==
    C4_Case =>
        /\ NothingChanged
        /\ last.err = IF CurrentStage(PreProduct).completed
                          THEN "StageNotCompleted" ELSE "UnauthorizedAccess"

\* The product owner, who is not the owner of the current (open) stage, is
\* refused.
C4_Witness ==
    /\ C4_Case
    /\ ~CurrentStage(PreProduct).completed
    /\ last.signer = PreProduct.owner
    /\ last.err = "UnauthorizedAccess"

----------------------------------------------------------------------------
(* C5 *)

\* C5: on a product whose status is Delivered, a log_event with valid inputs
\* fails with ProductAlreadyDelivered and leaves the product unchanged.
C5_TerminalLock ==
    (Ran("log_event") /\ ValidLogInputs(last.args) /\ FreshAddress
        /\ PreProduct.status = "Delivered") =>
        /\ last.err = "ProductAlreadyDelivered"
        /\ products = last.pre_products

----------------------------------------------------------------------------
(* C6 *)

\* C6: once a product's status is Delivered no instruction changes the status
\* or adds an event.
C6_DeliveredIsTerminal ==
    [][\A pkey \in DOMAIN products :
          products[pkey].status = "Delivered" =>
              /\ products'[pkey].status = "Delivered"
              /\ EventAccountsOf(events', pkey) = EventAccountsOf(events, pkey)]_vars

----------------------------------------------------------------------------
(* C7 *)

\* C7: a successful log_event(Complete) on a non-final current stage marks the
\* stage completed, moves current_stage_index one stage on and, when the new
\* current stage declares an owner, makes that owner the product owner with
\* status Transferred.
C7_CompleteEventHandsOff ==
    (Ran("log_event") /\ last.err = "Ok" /\ last.args.event_type = "Complete"
        /\ PreProduct.stages # <<>>
        /\ PreProduct.current_stage_index + 1 < Len(PreProduct.stages)) =>
        LET p == products[last.key]
            k == PreProduct.current_stage_index
        IN  /\ p.stages[k + 1].completed
            /\ p.current_stage_index = k + 1
            /\ CurrentStage(p).owner # None =>
                   (p.owner = CurrentStage(p).owner /\ p.status = "Transferred")

----------------------------------------------------------------------------
(* C8 *)

\* stage j (1-based) of p was completed through a Complete-typed log_event
CompletedByEvent(pkey, p, j) ==
    /\ p.stages[j].completed
    /\ \E a \in EventAccountsOf(events, pkey) :
           events[a].event_type = "Complete" /\ events[a].stage_name = p.stages[j].name

\* stage j owned by A was completed through log_event, stage j+1 is owned by B # A
C8_Handover(pkey, p, j) ==
    /\ j + 1 <= Len(p.stages)
    /\ p.stages[j].owner # None
    /\ p.stages[j + 1].owner \notin {None, p.stages[j].owner}
    /\ CompletedByEvent(pkey, p, j)

\* error kind of a log_event with valid inputs by `signer`, run on p
LogEventErr(pkey, p, signer) ==
    process_log_event(pkey, p, signer, "Recv", "done", "Ongoing").err

\* C8 as stated: after such a handover every later log_event by A fails with
\* UnauthorizedAccess and a log_event by B (valid inputs, counter not at its
\* maximum) succeeds.
C8_Original ==
    \A pkey \in DOMAIN products :
        LET p == products[pkey] IN
        \A j \in 1..Len(p.stages) :
            C8_Handover(pkey, p, j) =>
                /\ LogEventErr(pkey, p, p.stages[j].owner) = "UnauthorizedAccess"
                /\ p.events_counter < MaxCounter =>
                       LogEventErr(pkey, p, p.stages[j + 1].owner) = "Ok"

\* C8 amended: after such a handover, for as long as stage j+1 is the current
\* stage and not completed, every log_event by A fails with UnauthorizedAccess
\* and a log_event by B with valid inputs succeeds (CounterOverflow apart).
C8_Amended ==
    \A pkey \in DOMAIN products :
        LET p == products[pkey] IN
        \A j \in 1..Len(p.stages) :
            (C8_Handover(pkey, p, j) /\ p.current_stage_index = j /\ ~p.stages[j + 1].completed) =>
                /\ LogEventErr(pkey, p, p.stages[j].owner) = "UnauthorizedAccess"
                /\ LogEventErr(pkey, p, p.stages[j + 1].owner) =
                       IF p.events_counter < MaxCounter THEN "Ok" ELSE "CounterOverflow"

\* After A's Complete event moved the product to B's stage, A submits a
\* log_event and is refused.
C8_Witness ==
    /\ Ran("log_event")
    /\ ValidLogInputs(last.args)
    /\ FreshAddress
    /\ last.err = "UnauthorizedAccess"
    /\ PreProduct.current_stage_index >= 1
    /\ C8_Handover(last.key, PreProduct, PreProduct.current_stage_index)
    /\ last.signer = PreProduct.stages[PreProduct.current_stage_index].owner
    /\ ~CurrentStage(PreProduct).completed

----------------------------------------------------------------------------
(* C9 *)

\* C9: a successful complete_stage marks the current stage completed; with a
\* next stage it moves current_stage_index one stage on and hands the product
\* to the next stage's owner (status Transferred) only when that stage
\* declares one; without a next stage it sets status Delivered and keeps
\* current_stage_index and owner.  Nothing else changes.
C9_CompleteStageEffect ==
    (Ran("complete_stage") /\ last.err = "Ok") =>
        LET pre == PreProduct
            p == products[last.key]
            k == pre.current_stage_index
        IN  /\ k < Len(pre.stages)
            /\ \A i \in 1..Len(pre.stages) :
                   /\ p.stages[i].name = pre.stages[i].name
                   /\ p.stages[i].owner = pre.stages[i].owner
                   /\ p.stages[i].completed = (pre.stages[i].completed \/ i = k + 1)
            /\ Len(p.stages) = Len(pre.stages)
            /\ p.events_counter = pre.events_counter
            /\ events = last.pre_events
            /\ IF k + 1 < Len(pre.stages)
                   THEN /\ p.current_stage_index = k + 1
                        /\ IF pre.stages[k + 2].owner # None
                               THEN p.owner = pre.stages[k + 2].owner /\ p.status = "Transferred"
                               ELSE p.owner = pre.owner /\ p.status = pre.status
                   ELSE /\ p.status = "Delivered"
                        /\ p.current_stage_index = k
                        /\ p.owner = pre.owner

\* complete_stage moved the product to a next stage that declares no owner.
C9_Witness ==
    /\ Ran("complete_stage") /\ last.err = "Ok"
    /\ PreProduct.current_stage_index + 1 < Len(PreProduct.stages)
    /\ products[last.key].current_stage_index = PreProduct.current_stage_index + 1
    /\ CurrentStage(products[last.key]).owner = None
    /\ products[last.key].owner = PreProduct.owner

----------------------------------------------------------------------------
(* C10 *)

\* C10: from one product state with a current stage that is not completed and
\* a caller who is the product owner and the current stage's owner,
\* complete_stage and log_event(Complete) leave the same stages,
\* current_stage_index, owner and status.
C10_CompletionPathsAgree ==
    \A pkey \in DOMAIN products :
        LET p == products[pkey] IN
        (/\ p.stages # <<>>
         /\ ~CurrentStage(p).completed
         /\ CurrentStage(p).owner = p.owner) =>
            LET a == process_complete_stage(p, p.owner)
                b == process_log_event(pkey, p, p.owner, "Recv", "done", "Complete")
            IN  (a.err = "Ok" /\ b.err = "Ok") =>
                    /\ a.product.stages = b.product.stages
                    /\ a.product.current_stage_index = b.product.current_stage_index
                    /\ a.product.owner = b.product.owner
                    /\ a.product.status = b.product.status

----------------------------------------------------------------------------
(* C11 *)

\* C11: right after a successful transfer_ownership from P to a new owner
\* other than P, a log_event by P (valid inputs, fresh event account), a
\* complete_stage by P and a transfer_ownership by P on that product all fail.
C11_TransferIsPermanent ==
    (Ran("transfer_ownership") /\ last.err = "Ok" /\ last.args.new_owner # last.signer) =>
        LET p == products[last.key]
            P == last.signer
        IN  /\ LogEventErr(last.key, p, P) # "Ok"
            /\ process_complete_stage(p, P).err # "Ok"
            /\ \A new_owner \in Principals :
                   process_transfer_ownership(p, P, new_owner).err # "Ok"

----------------------------------------------------------------------------
(* C12 *)

\* C12: after a successful initialize_product by caller C the new product has
\* owner = C, status = Created, events_counter = 0, current_stage_index = 0,
\* the serial number and description that were passed, and the stage list
\* exactly as supplied (empty when none was supplied); no event is created
\* and no other product changes.
C12_InitializeEffect ==
    (last.op = "initialize_product" /\ last.err = "Ok") =>
        /\ last.key \notin DOMAIN last.pre_products
        /\ DOMAIN products = DOMAIN last.pre_products \cup {last.key}
        /\ \A k \in DOMAIN last.pre_products : products[k] = last.pre_products[k]
        /\ events = last.pre_events
        /\ LET p == products[last.key]
           IN  /\ p.owner = last.signer
               /\ p.status = "Created"
               /\ p.events_counter = 0
               /\ p.current_stage_index = 0
               /\ p.serial_number = last.args.serial_number
               /\ p.description = last.args.description
               /\ p.stages = (IF last.args.stages.some THEN last.args.stages.val ELSE <<>>)

\* a product was created from a supplied stage list whose first stage is
\* already marked completed, and the list is stored as supplied
C12_Witness ==
    /\ last.op = "initialize_product" /\ last.err = "Ok"
    /\ last.args.stages = SomeStages(StagesDoneB)
    /\ products[last.key].stages = StagesDoneB
    /\ products[last.key].owner = "A"

----------------------------------------------------------------------------
(* C13 *)

SerialNumberInRange(args) == Len(args.serial_number) \in 1..50
DescriptionInRange(args) == Len(args.description) \in 1..200
StageCountInRange(args) == args.stages.some => Len(args.stages.val) <= 10
StageNamesInRange(args) ==
    args.stages.some =>
        \A i \in 1..Len(args.stages.val) : Len(args.stages.val[i].name) \in 1..50

----------------------------------------------------------------------------
(* C14 *)

\* C14: products are keyed by (creating principal, serial number).  An
\* initialize_product by C with a serial number under which C already created
\* a product fails on the existing account and changes nothing, whoever owns
\* that product by now; when C created no product with that serial number
\* the call (valid inputs) succeeds, also when another principal created a
\* product with the same serial number.
C14_KeyPerCreatorAndSerial ==
    last.op = "initialize_product" =>
        LET C == last.signer
            sn == last.args.serial_number
        IN  IF <<C, sn>> \in DOMAIN last.pre_products
                THEN last.err = AccountInitFailed /\ NothingChanged
                ELSE /\ last.err = "Ok"
                     /\ <<C, sn>> \in DOMAIN products
                     /\ products[<<C, sn>>].owner = C
                     /\ \A k \in DOMAIN last.pre_products : products[k] = last.pre_products[k]

\* A's product was transferred to B, B created a product with the same
\* serial number, and A's second initialize_product with that serial number
\* has just failed
C14_Witness ==
    /\ last.op = "initialize_product" /\ last.signer = "A"
    /\ last.err = AccountInitFailed
    /\ products[<<"A", "SN1">>].owner = "B"
    /\ <<"B", "SN1">> \in DOMAIN products
    /\ products[<<"B", "SN1">>].serial_number = products[<<"A", "SN1">>].serial_number

----------------------------------------------------------------------------
(* C15 *)

\* C15: in the program of lib.rs a successful log_event leaves the status
\* InTransit for a Shipped event, Received for a Received event, Delivered
\* for a Delivered event and as it was for Created, QualityCheck and Other;
\* it changes nothing else of the product but the counter.  After
\* initialize_product, a log_event(Shipped) by the owner gives status
\* InTransit, events_counter 1 and an event with event_type Shipped and
\* event_index 0.
C15_TypedStatus ==
    (Ran("log_event") /\ last.err = "Ok") =>
        LET p == products[last.key]
            et == last.args.event_type
        IN  /\ et = "Shipped" => p.status = "InTransit"
            /\ et = "Received" => p.status = "Received"
            /\ et = "Delivered" => p.status = "Delivered"
            /\ et \in {"Created", "QualityCheck", "Other"} => p.status = PreProduct.status
            /\ p = [PreProduct EXCEPT !.status = p.status, !.events_counter = @ + 1]
            /\ (et = "Shipped" /\ PreProduct.status = "Created" /\ PreProduct.events_counter = 0) =>
                   /\ last.signer = PreProduct.owner
                   /\ p.status = "InTransit" /\ p.events_counter = 1
                   /\ events[EventKey(last.key, 0)].event_type = "Shipped"
                   /\ events[EventKey(last.key, 0)].event_index = 0
                   /\ DOMAIN events = {EventKey(last.key, 0)}

\* Scenario A: Shipped logged by the owner on the product as created
C15_Witness ==
    /\ Ran("log_event") /\ last.err = "Ok" /\ last.args.event_type = "Shipped"
    /\ PreProduct.status = "Created" /\ PreProduct.events_counter = 0
    /\ last.signer = "A" /\ PreProduct.owner = "A"
    /\ products[last.key].status = "InTransit"

----------------------------------------------------------------------------
(* C16 *)

\* C16: in the staged program a successful log_event(Complete) on the last
\* stage of the list leaves status = Delivered, and every other successful
\* log_event leaves status = InTransit.  (A Complete event that creates the
\* only stage of a product without stages may count as either.)
C16_StagedStatusPolicy ==
    (Ran("log_event") /\ last.err = "Ok") =>
        LET pre == PreProduct
            p == products[last.key]
            complete == last.args.event_type = "Complete"
            onLastStage == pre.stages # <<>> /\ pre.current_stage_index + 1 = Len(pre.stages)
        IN  /\ (complete /\ onLastStage) => p.status = "Delivered"
            /\ (complete /\ pre.stages = <<>>) => p.status \in {"InTransit", "Delivered"}
            /\ (~complete \/ (pre.stages # <<>> /\ ~onLastStage)) => p.status = "InTransit"

----------------------------------------------------------------------------
(* C17 *)

\* C17: a successful log_event by X on a product with an empty stage list
\* leaves the product with exactly one stage, whose name is the stage_name
\* passed, whose owner is X and which is completed exactly when the event
\* type is Complete; current_stage_index is the index of that stage (0), and
\* the event created carries the stage_name passed.
C17_LazyStage ==
    (Ran("log_event") /\ last.err = "Ok" /\ PreProduct.stages = <<>>) =>
        LET p == products[last.key]
        IN  /\ p.stages = <<[name |-> last.args.stage_name,
                             owner |-> last.signer,
                             completed |-> (last.args.event_type = "Complete")]>>
            /\ p.current_stage_index = 0
            /\ p = [PreProduct EXCEPT !.stages = p.stages, !.events_counter = @ + 1]
            /\ events[LastAddress].stage_name = last.args.stage_name
            /\ events[LastAddress].event_index = PreProduct.events_counter

\* B, who does not own the product, logged a Complete event on a product
\* without stages and became the owner of the stage created
C17_Witness ==
    /\ Ran("log_event") /\ last.err = "Ok" /\ PreProduct.stages = <<>>
    /\ last.signer = "B" /\ PreProduct.owner = "A"
    /\ last.args.event_type = "Complete"
    /\ products[last.key].stages = <<Stage("Recv", "B", TRUE)>>

----------------------------------------------------------------------------
(* C18 *)

\* C18: a log_event (valid inputs, fresh event account) on a product that
\* has 10 stages, naming a stage that is not in the list, fails with
\* TooManyStages and leaves the product and its 10 stages unchanged.
C18_EleventhStageRejected ==
    (/\ Ran("log_event") /\ ValidLogInputs(last.args) /\ FreshAddress
     /\ Len(PreProduct.stages) = MAX_STAGES
     /\ \A i \in 1..MAX_STAGES : PreProduct.stages[i].name # last.args.stage_name)
        => (last.err = "TooManyStages" /\ NothingChanged)

----------------------------------------------------------------------------
(* C19 *)

\* C19: every successful log_event and every successful complete_stage
\* creates exactly one event account, which belongs to the product and
\* carries event_index = the product's events_counter before the call, and
\* leaves events_counter one higher.
C19_OneEventPerMutation ==
    ((Ran("log_event") \/ Ran("complete_stage")) /\ last.err = "Ok") =>
        /\ \A a \in DOMAIN last.pre_events : a \in DOMAIN events
        /\ \E a \in DOMAIN events \ DOMAIN last.pre_events :
               /\ DOMAIN events \ DOMAIN last.pre_events = {a}
               /\ events[a].product = last.key
               /\ events[a].event_index = PreProduct.events_counter
        /\ products[last.key].events_counter = PreProduct.events_counter + 1

----------------------------------------------------------------------------
(* C20 *)

\* The last instruction is a replay: the product has exactly one stage and
\* one event, so its only successful log_event so far was the one that
\* created the event, made by the owner of the stage; the last instruction
\* is a log_event by that same signer with the same stage name, description
\* and event type.
C20_Replay ==
    /\ Ran("log_event")
    /\ PreProduct.events_counter = 1
    /\ Len(PreProduct.stages) = 1
    /\ EventKey(last.key, 0) \in DOMAIN last.pre_events
    /\ LET first == last.pre_events[EventKey(last.key, 0)]
           stage == PreProduct.stages[1]
       IN  /\ last.signer = stage.owner
           /\ last.args.stage_name = stage.name /\ first.stage_name = stage.name
           /\ last.args.description = first.description
           /\ last.args.event_type = first.event_type

\* every event account that existed before the last instruction still
\* exists with the same fields
C20_EventsKept ==
    \A a \in DOMAIN last.pre_events :
        a \in DOMAIN events /\ events[a] = last.pre_events[a]

\* the last instruction created exactly one event account, at the index
\* that follows the product's earlier events
C20_NewEventAtNextIndex ==
    /\ DOMAIN events \ DOMAIN last.pre_events = {EventKey(last.key, PreProduct.events_counter)}
    /\ events[EventKey(last.key, PreProduct.events_counter)].event_index = PreProduct.events_counter
    /\ products[last.key].events_counter = PreProduct.events_counter + 1

\* C20 as stated: a replayed log_event (naming the event account of the
\* current counter) produces a new event at the next index, and no earlier
\* event is altered or removed.
C20_Original ==
    /\ C20_EventsKept
    /\ (C20_Replay /\ FreshAddress) => (last.err = "Ok" /\ C20_NewEventAtNextIndex)

\* C20 amended: no instruction alters or removes an existing event; a
\* log_event either fails and changes nothing or creates exactly one event
\* at the next index; a replayed log_event that names the event account of
\* the current counter succeeds when the stage is still open and fails with
\* StageNotCompleted when the stage is completed, which is always so for a
\* replayed Complete event; a replay that names the event account of the
\* original call fails on the existing account.
C20_Amended ==
    /\ C20_EventsKept
    /\ Ran("log_event") =>
           IF last.err = "Ok" THEN C20_NewEventAtNextIndex ELSE NothingChanged
    /\ C20_Replay =>
           /\ last.args.observed = 0 => last.err = AccountInitFailed
           /\ FreshAddress =>
                  last.err = (IF PreProduct.stages[1].completed
                                  THEN "StageNotCompleted" ELSE "Ok")
           /\ last.args.event_type = "Complete" => PreProduct.stages[1].completed

\* a replayed Ongoing log_event has created a second event that differs from
\* the first in its index only
C20_Witness ==
    /\ C20_Replay /\ last.err = "Ok"
    /\ events[EventKey(last.key, 1)] =
           [events[EventKey(last.key, 0)] EXCEPT !.event_index = 1]

----------------------------------------------------------------------------
(* C21 *)

\* C21: for every product with a non-empty stage list, current_stage_index
\* is less than the number of stages; hence a log_event or complete_stage
\* that fails with InvalidStageIndex was made on a product without stages.
C21_StageIndexInRange ==
    /\ \A pkey \in DOMAIN products :
           products[pkey].stages # <<>> =>
               products[pkey].current_stage_index < Len(products[pkey].stages)
    /\ ((Ran("log_event") \/ Ran("complete_stage")) /\ last.err = "InvalidStageIndex") =>
           PreProduct.stages = <<>>

\* a Complete event was logged on the last of two stages: the stage is
\* completed and the index stays on it
C21_Witness ==
    /\ Ran("log_event") /\ last.err = "Ok" /\ last.args.event_type = "Complete"
    /\ Len(PreProduct.stages) = 2 /\ PreProduct.current_stage_index = 1
    /\ products[last.key].current_stage_index = 1
    /\ products[last.key].stages[2].completed

----------------------------------------------------------------------------
(* C22 *)

\* C22: a stage that was completed before an instruction is still in the
\* stage list, at the same position, and completed after it, whatever the
\* instruction and whether it succeeded.
C22_CompletedStaysCompleted ==
    \A pkey \in DOMAIN last.pre_products :
        /\ pkey \in DOMAIN products
        /\ \A i \in 1..Len(last.pre_products[pkey].stages) :
               last.pre_products[pkey].stages[i].completed =>
                   /\ i <= Len(products[pkey].stages)
                   /\ products[pkey].stages[i].completed

\* the first stage was completed, and then the owner transferred the product
C22_Witness ==
    /\ Ran("transfer_ownership") /\ last.err = "Ok"
    /\ PreProduct.stages # <<>> /\ PreProduct.stages[1].completed
    /\ products[last.key].stages[1].completed
    /\ products[last.key].owner # PreProduct.owner

----------------------------------------------------------------------------
(* C23 *)

\* C23: a product is created with events_counter = 0; no instruction lowers
\* the counter of any product; a successful log_event raises the counter of
\* its product by exactly 1; a failed instruction and a transfer_ownership
\* leave every counter as it was.
C23_CounterMonotone ==
    /\ (last.op = "initialize_product" /\ last.err = "Ok") =>
           products[last.key].events_counter = 0
    /\ \A pkey \in DOMAIN last.pre_products :
           /\ pkey \in DOMAIN products
           /\ products[pkey].events_counter >= last.pre_products[pkey].events_counter
           /\ (last.err # "Ok" \/ last.op = "transfer_ownership" \/ pkey # last.key) =>
                  products[pkey].events_counter = last.pre_products[pkey].events_counter
    /\ (Ran("log_event") /\ last.err = "Ok") =>
           products[last.key].events_counter = PreProduct.events_counter + 1

\* the second event of a product has just been logged: the counter went
\* from 1 to 2
C23_Witness ==
    /\ Ran("log_event") /\ last.err = "Ok"
    /\ PreProduct.events_counter = 1
    /\ products[last.key].events_counter = 2

----------------------------------------------------------------------------
(* C24 *)

\* the handler of the last instruction, run on the accounts as they were
\* before the instruction
LastHandlerOutcome ==
    CASE last.op = "initialize_product" ->
             process_initialize_product(last.signer, last.args.serial_number,
                                        last.args.description, last.args.stages)
      [] last.op = "log_event" ->
             process_log_event(last.key, PreProduct, last.signer, last.args.stage_name,
                               last.args.description, last.args.event_type)
      [] last.op = "complete_stage" -> process_complete_stage(PreProduct, last.signer)
      [] last.op = "transfer_ownership" ->
             process_transfer_ownership(PreProduct, last.signer, last.args.new_owner)

\* the handler of the last instruction ran (the account constraints passed)
\* and returned the error the instruction failed with
HandlerFailed ==
    /\ last.op # "none" /\ last.err \notin {"Ok", AccountInitFailed}
    /\ last.op # "initialize_product" => last.key \in DOMAIN last.pre_products

\* the handler returned with the accounts it was given untouched
NothingStaged ==
    /\ LastHandlerOutcome.product =
           (IF last.op = "initialize_product" THEN ZeroProduct ELSE PreProduct)
    /\ LastHandlerOutcome.event = ZeroEvent

\* C24 as stated: an instruction that fails, with whatever error, leaves the
\* products and the events as they were, and its handler returned the error
\* before it wrote anything to the accounts it works on.
C24_Original ==
    /\ last.err # "Ok" => NothingChanged
    /\ HandlerFailed => NothingStaged

\* C24 amended: an instruction that fails, with whatever error, leaves the
\* products and the events as they were; its handler returned the error
\* before writing anything, except for CounterOverflow, which log_event
\* returns after it has written the event fields and the stage update to the
\* accounts in memory, which are then not written back.
C24_Amended ==
    /\ last.err # "Ok" => NothingChanged
    /\ (HandlerFailed /\ last.err # "CounterOverflow") => NothingStaged
    /\ (HandlerFailed /\ last.err = "CounterOverflow") =>
           /\ last.op = "log_event"
           /\ LastHandlerOutcome.event # ZeroEvent
           /\ LastHandlerOutcome.product.events_counter = PreProduct.events_counter

\* a Complete event failed with CounterOverflow after the handler had marked
\* the stage completed in memory; the stored product is as before
C24_Witness ==
    /\ Ran("log_event") /\ last.err = "CounterOverflow" /\ NothingChanged
    /\ LastHandlerOutcome.product # PreProduct
    /\ ~CurrentStage(products[last.key]).completed

----------------------------------------------------------------------------
(* C25 *)

\* the last log_event passes every check of the handler that does not
\* involve the counter
C25_OtherwiseAccepted ==
    process_log_event(last.key, [PreProduct EXCEPT !.events_counter = 0], last.signer,
                      last.args.stage_name, last.args.description,
                      last.args.event_type).err = "Ok"

\* C25: no events_counter exceeds the maximum of its type.  A log_event on a
\* product whose counter is at the maximum never succeeds and leaves the
\* product (counter, stages, current_stage_index) and the events unchanged,
\* so no event appears at a wrapped index; when the call names the event
\* account of the counter and passes the other checks, the error is
\* CounterOverflow.
C25_CounterNeverWraps ==
    /\ \A pkey \in DOMAIN products : products[pkey].events_counter <= MaxCounter
    /\ (Ran("log_event") /\ PreProduct.events_counter = MaxCounter) =>
           /\ last.err # "Ok"
           /\ NothingChanged
           /\ (FreshAddress /\ C25_OtherwiseAccepted) => last.err = "CounterOverflow"

\* a Complete event on a product whose counter is at the maximum was
\* rejected with CounterOverflow; the event at index 0 is in place
C25_Witness ==
    /\ Ran("log_event") /\ PreProduct.events_counter = MaxCounter
    /\ last.err = "CounterOverflow" /\ last.args.event_type = "Complete"
    /\ products[last.key].events_counter = MaxCounter
    /\ EventKey(last.key, 0) \in DOMAIN events
    /\ events[EventKey(last.key, 0)].event_index = 0

----------------------------------------------------------------------------
(* C26 *)

\* C26: a log_event on a product whose current stage is already completed
\* fails and leaves the products and the events unchanged, whoever signs it
\* and whatever the event type; with a valid description and stage name and
\* the event account of the current counter the error is StageNotCompleted.
C26_CompletedStageRejectsEvents ==
    (/\ Ran("log_event")
     /\ PreProduct.stages # <<>>
     /\ CurrentStage(PreProduct).completed)
        => /\ last.err # "Ok"
           /\ NothingChanged
           /\ (ValidLogInputs(last.args) /\ FreshAddress) => last.err = "StageNotCompleted"

\* the signer is the product's owner and the owner of the completed stage
C26_Witness ==
    /\ Ran("log_event") /\ last.err = "StageNotCompleted"
    /\ PreProduct.stages # <<>> /\ CurrentStage(PreProduct).completed
    /\ last.signer = PreProduct.owner
    /\ last.signer = CurrentStage(PreProduct).owner
    /\ last.args.event_type = "Complete"

----------------------------------------------------------------------------
(* C27 *)

\* C27: when the current stage is not completed and has no owner, a
\* log_event with a valid description and stage name, on the event account
\* of the current counter and with the counter below its maximum, succeeds
\* whoever signs it.
C27_OpenStageAcceptsAnyone ==
    (/\ Ran("log_event")
     /\ PreProduct.stages # <<>>
     /\ ~CurrentStage(PreProduct).completed
     /\ CurrentStage(PreProduct).owner = None
     /\ ValidLogInputs(last.args) /\ FreshAddress
     /\ ~checked_add_overflows(PreProduct.events_counter))
        => last.err = "Ok"

\* a principal who is neither the product's owner nor the owner of any stage
\* logged an event on the stage without owner
C27_Witness ==
    /\ Ran("log_event") /\ last.err = "Ok"
    /\ PreProduct.stages # <<>>
    /\ CurrentStage(PreProduct).owner = None
    /\ last.signer # PreProduct.owner
    /\ \A i \in 1..Len(PreProduct.stages) : PreProduct.stages[i].owner # last.signer
    /\ events[LastAddress].stage_name = CurrentStage(PreProduct).name

----------------------------------------------------------------------------
(* C28 *)

\* C28: a complete_stage by the product's owner on a product without stages
\* fails with NoStages; InvalidStageIndex is returned only for a non-empty
\* stage list; in both cases nothing changes.
C28_NoStagesError ==
    (Ran("complete_stage") /\ last.signer = PreProduct.owner) =>
        /\ PreProduct.stages = <<>> => (last.err = "NoStages" /\ NothingChanged)
        /\ last.err = "InvalidStageIndex" => (PreProduct.stages # <<>> /\ NothingChanged)

----------------------------------------------------------------------------
(* C29 *)

\* C29: while the current stage has an owner S, a log_event, complete_stage
\* or transfer_ownership signed by a principal other than S does not change
\* the product.
C29_OnlyStageOwnerActs ==
    (/\ Ran("log_event") \/ Ran("complete_stage") \/ Ran("transfer_ownership")
     /\ PreProduct.stages # <<>>
     /\ CurrentStage(PreProduct).owner # None
     /\ last.signer # CurrentStage(PreProduct).owner)
        => products[last.key] = PreProduct

----------------------------------------------------------------------------
(* C30 *)

\* C30: for every product whose status is not Delivered, no call signed by
\* product.owner is rejected with UnauthorizedAccess: neither a log_event
\* with valid inputs when the current stage is not completed, nor a
\* complete_stage, nor a transfer_ownership.
C30_OwnerCanAuthorize ==
    \A pkey \in DOMAIN products :
        LET p == products[pkey] IN
        p.status # "Delivered" =>
            /\ (p.stages # <<>> /\ ~CurrentStage(p).completed) =>
                   LogEventErr(pkey, p, p.owner) # "UnauthorizedAccess"
            /\ process_complete_stage(p, p.owner).err # "UnauthorizedAccess"
            /\ \A new_owner \in Principals :
                   process_transfer_ownership(p, p.owner, new_owner).err # "UnauthorizedAccess"

----------------------------------------------------------------------------
(* C31 *)

\* C31: in the program of lib.rs a log_event succeeds only when its signer
\* is product.owner; signed by anyone else it fails, creates no event and
\* leaves the product (status, events_counter) unchanged, with the error
\* UnauthorizedAccess when the description is valid and the event account is
\* that of the current counter.  Hence right after a transfer_ownership to
\* another principal a log_event by the previous owner is rejected and one
\* by the new owner is not.
C31_OwnerOnlyLogs ==
    /\ Ran("log_event") =>
           /\ last.err = "Ok" => last.signer = PreProduct.owner
           /\ last.signer # PreProduct.owner =>
                  /\ NothingChanged
                  /\ (Len(last.args.description) \in 1..200 /\ FreshAddress) =>
                         last.err = "UnauthorizedAccess"
    /\ (Ran("transfer_ownership") /\ last.err = "Ok" /\ last.args.new_owner # last.signer) =>
           LET p == products[last.key] IN
           \A et \in LibEventType :
               /\ log_event(last.key, p, last.signer, et, "left warehouse").err = "UnauthorizedAccess"
               /\ log_event(last.key, p, last.args.new_owner, et, "left warehouse").err
                      \in {"Ok", "CounterOverflow"}

\* A transferred the product to B, and A's log_event was then rejected
C31_Witness ==
    /\ Ran("log_event") /\ last.err = "UnauthorizedAccess"
    /\ last.signer = "A" /\ PreProduct.owner = "B"
    /\ PreProduct.status = "Transferred"
    /\ NothingChanged

----------------------------------------------------------------------------
(* C32 *)

\* the current stage of p is its last stage and is completed
OnCompletedLastStage(p) ==
    /\ p.stages # <<>>
    /\ p.current_stage_index + 1 = Len(p.stages)
    /\ p.stages[Len(p.stages)].completed

\* C32: a product whose status is Delivered stands on its completed last
\* stage; a product that stands on its completed last stage does so after
\* any instruction, whatever its status has become, and no log_event on it
\* succeeds: its events_counter and the events are as before the
\* instruction.  So from the complete_stage that set Delivered onwards no
\* log_event on the product succeeds, also after a transfer_ownership.
C32_NoEventsAfterDelivered ==
    /\ \A pkey \in DOMAIN products :
           products[pkey].status = "Delivered" => OnCompletedLastStage(products[pkey])
    /\ (last.key \in DOMAIN last.pre_products /\ OnCompletedLastStage(PreProduct)) =>
           /\ OnCompletedLastStage(products[last.key])
           /\ products[last.key].events_counter = PreProduct.events_counter
           /\ events = last.pre_events
           /\ last.op = "log_event" => last.err # "Ok"

\* a Delivered product was transferred, its status is now Transferred, and
\* a log_event by the owner of its stage is still rejected
C32_Witness ==
    /\ Ran("transfer_ownership") /\ last.err = "Ok"
    /\ PreProduct.status = "Delivered"
    /\ products[last.key].status = "Transferred"
    /\ LogEventErr(last.key, products[last.key], CurrentStage(products[last.key]).owner)
           = "StageNotCompleted"

----------------------------------------------------------------------------
(* C33 *)

\* C33: in every product every stage before the current one is completed.
C33_EarlierStagesCompleted ==
    \A pkey \in DOMAIN products :
        \A i \in 1..Len(products[pkey].stages) :
            i - 1 < products[pkey].current_stage_index => products[pkey].stages[i].completed

\* a Complete event moved the product from its first stage to its second
C33_Witness ==
    /\ Ran("log_event") /\ last.err = "Ok" /\ last.args.event_type = "Complete"
    /\ Len(PreProduct.stages) = 2
    /\ PreProduct.current_stage_index = 0 /\ ~PreProduct.stages[1].completed
    /\ products[last.key].current_stage_index = 1
    /\ products[last.key].stages[1].completed
    /\ ~products[last.key].stages[2].completed

----------------------------------------------------------------------------
(* C34 *)

\* C34: over any instruction the stage list of a product keeps its length,
\* or goes from empty to exactly one stage; a non-empty list keeps the name
\* and the owner of every stage; a product created without a stage list
\* never has more than one stage; and log_event never returns
\* TooManyStages.
C34_StageListFixed ==
    /\ \A pkey \in DOMAIN last.pre_products :
           LET before == last.pre_products[pkey].stages
               after == products[pkey].stages
           IN  /\ \/ Len(after) = Len(before)
                  \/ before = <<>> /\ Len(after) = 1
               /\ before # <<>> =>
                      /\ Len(after) = Len(before)
                      /\ \A i \in 1..Len(before) :
                             /\ after[i].name = before[i].name
                             /\ after[i].owner = before[i].owner
    /\ \A pkey \in DOMAIN products :
           ~products[pkey].use_stages => Len(products[pkey].stages) <= 1
    /\ Ran("log_event") =>
           /\ last.err # "TooManyStages"
           /\ LastHandlerOutcome.err # "TooManyStages"

\* a second event was logged on a product created without stages: it still
\* has the one stage that the first event made
C34_Witness ==
    /\ Ran("log_event") /\ last.err = "Ok"
    /\ ~PreProduct.use_stages
    /\ PreProduct.events_counter = 1 /\ Len(PreProduct.stages) = 1
    /\ products[last.key].stages = PreProduct.stages

----------------------------------------------------------------------------
(* C35 *)

\* C35: a product is created with a status other than Delivered, and its
\* status becomes Delivered only in a successful complete_stage signed by
\* product.owner while the last stage is current; in particular no log_event
\* and no transfer_ownership makes it Delivered.  A successful
\* log_event(Complete) on the last stage leaves the product on its completed
\* last stage with a status other than Delivered.
C35_DeliveredOnlyByCompleteStage ==
    /\ (last.op = "initialize_product" /\ last.err = "Ok") =>
           products[last.key].status # "Delivered"
    /\ \A pkey \in DOMAIN last.pre_products :
           (products[pkey].status = "Delivered"
                /\ last.pre_products[pkey].status # "Delivered") =>
               /\ last.op = "complete_stage" /\ last.err = "Ok" /\ last.key = pkey
               /\ last.signer = PreProduct.owner
               /\ PreProduct.current_stage_index + 1 = Len(PreProduct.stages)
    /\ (/\ Ran("log_event") /\ last.err = "Ok" /\ last.args.event_type = "Complete"
        /\ PreProduct.current_stage_index + 1 >= Len(PreProduct.stages)) =>
           /\ OnCompletedLastStage(products[last.key])
           /\ products[last.key].status # "Delivered"

\* the last stage had been completed by a Complete event, the status was
\* still not Delivered, and the owner's complete_stage has made it Delivered
C35_Witness ==
    /\ Ran("complete_stage") /\ last.err = "Ok"
    /\ OnCompletedLastStage(PreProduct)
    /\ PreProduct.status # "Delivered"
    /\ PreProduct.events_counter > 0
    /\ events[EventKey(last.key, PreProduct.events_counter - 1)].event_type = "Complete"
    /\ products[last.key].status = "Delivered"

----------------------------------------------------------------------------
(* C36 *)

\* C36: when an instruction changes the owner of a product, or changes its
\* status to Transferred or Delivered, the instruction is a successful
\* transfer_ownership or complete_stage on that product signed by the owner
\* the product had before; an instruction signed by anyone else leaves the
\* owner and the status of every product as they were.
C36_OnlyOwnerMovesOwnership ==
    \A pkey \in DOMAIN last.pre_products :
        LET before == last.pre_products[pkey]
            after == products[pkey]
        IN  /\ (\/ after.owner # before.owner
                \/ after.status # before.status /\ after.status \in {"Transferred", "Delivered"}) =>
                   /\ last.key = pkey /\ last.err = "Ok"
                   /\ last.op \in {"transfer_ownership", "complete_stage"}
                   /\ last.signer = before.owner
                   /\ (last.op = "complete_stage" /\ after.owner # before.owner) =>
                          after.owner = CurrentStage(after).owner
            /\ last.signer # before.owner =>
                   (after.owner = before.owner /\ after.status = before.status)

\* the owner A completed the stage and the product went to the next stage's
\* owner B
C36_Witness ==
    /\ Ran("complete_stage") /\ last.err = "Ok"
    /\ last.signer = "A" /\ PreProduct.owner = "A"
    /\ products[last.key].owner = "B"
    /\ products[last.key].status = "Transferred"
    /\ CurrentStage(products[last.key]).owner = "B"

----------------------------------------------------------------------------
(* C37 *)

\* C37: on a product created without a stage list, a log_event with valid
\* inputs and the event account of the counter succeeds while the list is
\* still empty, whoever signs it, and the signer X becomes the owner of the
\* stage it creates; every later successful log_event on the product is
\* signed by the owner of that stage, X; and while product.owner is not X no
\* log_event signed by product.owner is accepted.
C37_FirstLoggerOwnsTheStage ==
    /\ (Ran("log_event") /\ ~PreProduct.use_stages) =>
           IF PreProduct.stages = <<>>
               THEN /\ (ValidLogInputs(last.args) /\ FreshAddress) => last.err = "Ok"
                    /\ last.err = "Ok" => products[last.key].stages[1].owner = last.signer
               ELSE /\ last.err = "Ok" => last.signer = PreProduct.stages[1].owner
                    /\ products[last.key].stages[1].owner = PreProduct.stages[1].owner
    /\ \A pkey \in DOMAIN products :
           LET p == products[pkey] IN
           (~p.use_stages /\ p.stages # <<>> /\ p.owner # p.stages[1].owner) =>
               \A et \in EventType :
                   process_log_event(pkey, p, p.owner, "Recv", "done", et).err # "Ok"

\* C, who does not own the product, logged its first event and has now
\* logged its second; the owner A would be rejected
C37_Witness ==
    /\ Ran("log_event") /\ last.err = "Ok" /\ last.signer = "C"
    /\ ~PreProduct.use_stages /\ PreProduct.stages # <<>>
    /\ PreProduct.stages[1].owner = "C"
    /\ products[last.key].owner = "A"
    /\ products[last.key].events_counter = 2
    /\ LogEventErr(last.key, PreProduct, "A") = "UnauthorizedAccess"

====
